---- MODULE Spec2Model ----
(***************************************************************************)
(* Model of utils/sheet.py: the Sheet class (open or create a remote       *)
(* spreadsheet, verify the service account's role, share, change owner).   *)
(* The gspread client `gc` and the remote service are the environment: a   *)
(* sequence of spreadsheets, each with a key, a title and one permission   *)
(* entry per principal.  Strings used as lookup values, titles and keys    *)
(* are represented by integers.                                            *)
(***************************************************************************)
EXTENDS Integers, Sequences, FiniteSets, TLC

\* ---------------------------------------------------------------- bounds
\* Number of API calls (constructions, share, change_owner) in a run.
MaxCalls == 3
\* Largest number of keyword arguments passed to a construction.
MaxKwargs == 2

\* ------------------------------------------------------------- constants
None == "None"
\* gc.auth._service_account_email
whoami == "svc"
Principals == {"svc", "al"}
Roles == {"owner", "writer", "reader"}
\* Lookup values a caller passes (titles, keys and urls are all strings).
Values == {1, 2, 3}
\* Keywords a caller passes; "name" is not a lookup method.
Keywords == {"title", "key", "url", "name"}
\* Titles str(uuid4()) generates and keys the service gives to new
\* spreadsheets: fresh, so outside Values.
UuidBase == 100
NewKeyBase == 200

\* The three raise sites of SheetError, told apart by their message.
ConfigurationError == "SheetError: Lookup key does not match one of [title, key, url]"
NotFoundError == "SheetError: Cannot find spreadsheet"
PermissionError == "SheetError: Insufficient privileges for service account"
\* gspread.exceptions
RequestError == "gspread.exceptions.RequestError"
SpreadsheetNotFound == "gspread.exceptions.SpreadsheetNotFound"
LookupKeys == {"title", "key", "url"}

\* sheets:   the spreadsheets of the remote service, in creation order
\* sessions: the Sheet objects whose __init__ returned (s, whoami, owner, role)
\* last:     the last call of the API: its arguments, the object before and
\*           after, what it raised or returned and the backend calls it made
\* ncalls:   the number of API calls made
\* nzero:    the number of constructions without arguments
VARIABLES sheets, sessions, last, ncalls, nzero
vars == <<sheets, sessions, last, ncalls, nzero>>

\* ------------------------------------------------------------ the backend
\* The permission list of a spreadsheet the service account owns alone.
OwnedPerms == [p \in Principals |-> IF p = "svc" THEN "owner" ELSE None]

\* Permission lists the pre-existing spreadsheets can have.
InitPerms ==
  { [p \in Principals |-> IF p = "svc" THEN "owner" ELSE None],
    [p \in Principals |-> IF p = "svc" THEN "writer" ELSE IF p = "al" THEN "owner" ELSE None],
    [p \in Principals |-> IF p = "svc" THEN "reader" ELSE IF p = "al" THEN "owner" ELSE None],
    [p \in Principals |-> IF p = "al" THEN "owner" ELSE None],
    [p \in Principals |-> IF p = "svc" THEN "writer" ELSE None] }

\* Permission lists list_permissions can report for a spreadsheet that was
\* just created: the creator as owner, or no entry yet.
CreatedPerms ==
  { [p \in Principals |-> IF p = "svc" THEN "owner" ELSE None],
    [p \in Principals |-> None] }

\* The order in which list_permissions enumerates the principals; with one
\* entry per principal and at most one owner, _verify records the same
\* owner and role in any order.
PermOrder == <<"al", "svc">>

Min(S) == CHOOSE x \in S : \A y \in S : x <= y

\* open_by_url extracts the key from the url.
KeyFromUrl(url) == (url % 3) + 1

\* gc.open: the first spreadsheet with the title, 0 for SpreadsheetNotFound.
gc_open(sh, title) ==
  LET m == { i \in DOMAIN sh : sh[i].title = title }
  IN IF m = {} THEN 0 ELSE Min(m)

gc_open_by_key(sh, key) ==
  LET m == { i \in DOMAIN sh : sh[i].key = key }
  IN IF m = {} THEN 0 ELSE Min(m)

gc_open_by_url(sh, url) == gc_open_by_key(sh, KeyFromUrl(url))

\* gc.create: a new spreadsheet with a fresh key, appended to the service's.
gc_create(sh, title, perms) ==
  Append(sh, [key |-> NewKeyBase + Len(sh), title |-> title, perms |-> perms])

\* str(uuid4()): a title no spreadsheet has.
uuid4(sh) == UuidBase + Len(sh)

\* Spreadsheet.list_permissions: one entry per principal that has a role.
list_permissions(sh, s) ==
  LET all == [i \in DOMAIN PermOrder |->
                [emailAddress |-> PermOrder[i], role |-> sh[s].perms[PermOrder[i]]]]
  IN SelectSeq(all, LAMBDA e : e.role # None)

\* Spreadsheet.share: the service accepts or rejects (RequestError) the
\* request; it never takes the role owner away from the owner by a grant of
\* a lower role.  A grant of owner makes the former owner a writer.
s_share(sh, s, email, role, notify, accept) ==
  IF ~accept \/ (sh[s].perms[email] = "owner" /\ role # "owner")
  THEN [raised |-> RequestError, sheets |-> sh]
  ELSE [raised |-> None,
        sheets |-> [sh EXCEPT ![s].perms =
                      [p \in Principals |->
                         IF p = email THEN role
                         ELSE IF role = "owner" /\ @[p] = "owner" THEN "writer"
                         ELSE @[p]]]]

\* ------------------------------------------------------------ class Sheet
\* The attributes of a Sheet before __init__ assigns them.
Sheet == [s |-> 0, whoami |-> whoami, owner |-> None, role |-> None]

\* _open_sheet with the url branch calling gc.open_by_key.
_open_sheet_url_by_key(self, key, value, sh) ==
  IF key \notin LookupKeys
  THEN [self |-> self, raised |-> ConfigurationError, calls |-> <<>>]
  ELSE LET fn == CASE key = "title" -> "open"
                   [] key = "key" -> "open_by_key"
                   [] key = "url" -> "open_by_key"
           s == CASE key = "title" -> gc_open(sh, value)
                  [] key = "key" -> gc_open_by_key(sh, value)
                  [] key = "url" -> gc_open_by_key(sh, value)
       IN IF s = 0
          THEN [self |-> self, raised |-> NotFoundError, calls |-> <<<<fn, value>>>>]
          ELSE [self |-> [self EXCEPT !.s = s], raised |-> None, calls |-> <<<<fn, value>>>>]

\* _open_sheet with the else branch looking the value up by title.
_open_sheet_else_title(self, key, value, sh) ==
  LET fn == CASE key = "key" -> "open_by_key"
              [] key = "url" -> "open_by_url"
              [] OTHER -> "open"
      s == CASE key = "key" -> gc_open_by_key(sh, value)
             [] key = "url" -> gc_open_by_url(sh, value)
             [] OTHER -> gc_open(sh, value)
  IN IF s = 0
     THEN [self |-> self, raised |-> NotFoundError, calls |-> <<<<fn, value>>>>]
     ELSE [self |-> [self EXCEPT !.s = s], raised |-> None, calls |-> <<<<fn, value>>>>]

\* _open_sheet with the except clause outside the open_by_key branch.
_open_sheet_key_uncaught(self, key, value, sh) ==
  IF key \notin LookupKeys
  THEN [self |-> self, raised |-> ConfigurationError, calls |-> <<>>]
  ELSE LET fn == CASE key = "title" -> "open"
                   [] key = "key" -> "open_by_key"
                   [] key = "url" -> "open_by_url"
           s == CASE key = "title" -> gc_open(sh, value)
                  [] key = "key" -> gc_open_by_key(sh, value)
                  [] key = "url" -> gc_open_by_url(sh, value)
       IN IF s = 0
          THEN [self |-> self,
                raised |-> IF key = "key" THEN SpreadsheetNotFound ELSE NotFoundError,
                calls |-> <<<<fn, value>>>>]
          ELSE [self |-> [self EXCEPT !.s = s], raised |-> None, calls |-> <<<<fn, value>>>>]

\* Sheet._open_sheet
_open_sheet(self, key, value, sh) ==
  IF key \notin LookupKeys
  THEN [self |-> self, raised |-> ConfigurationError, calls |-> <<>>]
  ELSE LET fn == CASE key = "title" -> "open"
                   [] key = "key" -> "open_by_key"
                   [] key = "url" -> "open_by_url"
           s == CASE key = "title" -> gc_open(sh, value)
                  [] key = "key" -> gc_open_by_key(sh, value)
                  [] key = "url" -> gc_open_by_url(sh, value)
       IN IF s = 0
          THEN [self |-> self, raised |-> NotFoundError, calls |-> <<<<fn, value>>>>]
          ELSE [self |-> [self EXCEPT !.s = s], raised |-> None, calls |-> <<<<fn, value>>>>]

\* The loop of Sheet._verify over the permission entries.
RECURSIVE VerifyLoop(_, _, _)
VerifyLoop(self, entries, i) ==
  IF i > Len(entries) THEN self
  ELSE LET user == entries[i]
           s1 == IF user.role = "owner" THEN [self EXCEPT !.owner = user.emailAddress] ELSE self
           s2 == IF user.emailAddress = s1.whoami THEN [s1 EXCEPT !.role = user.role] ELSE s1
       IN VerifyLoop(s2, entries, i + 1)

\* _verify accepting any role the service account is listed with.
_verify_any_role(self, entries) ==
  LET after == VerifyLoop(self, entries, 1)
  IN [self |-> after,
      raised |-> IF after.role = None THEN PermissionError ELSE None,
      calls |-> <<<<"list_permissions", self.s>>>>]

\* Sheet._verify
_verify(self, entries) ==
  LET after == VerifyLoop(self, entries, 1)
  IN [self |-> after,
      raised |-> IF after.role \notin {"owner", "writer"} \/ after.role = None
                 THEN PermissionError ELSE None,
      calls |-> <<<<"list_permissions", self.s>>>>]

\* Sheet._initialize: reads the worksheets, both branches do nothing.
_initialize(self) == [self |-> self, raised |-> None, calls |-> <<<<"worksheets", self.s>>>>]

\* __init__ calling _verify only in the two lookup branches.
__init___verify_lookups_only(args, kwargs, item, sh, cp) ==
  LET opened ==
        IF Len(args) > 0 THEN _open_sheet(Sheet, "title", args[1], sh) @@ [sheets |-> sh]
        ELSE IF kwargs # {} THEN _open_sheet(Sheet, item[1], item[2], sh) @@ [sheets |-> sh]
        ELSE LET title == uuid4(sh)
                 sh1 == gc_create(sh, title, cp)
             IN [self |-> [Sheet EXCEPT !.s = Len(sh1)], raised |-> None,
                 calls |-> <<<<"create", title>>>>, sheets |-> sh1]
      created == Len(args) = 0 /\ kwargs = {}
  IN IF opened.raised # None THEN opened
     ELSE LET v == IF created THEN [self |-> opened.self, raised |-> None, calls |-> <<>>]
                   ELSE _verify(opened.self,
                                list_permissions(opened.sheets, opened.self.s))
          IN IF v.raised # None
             THEN [self |-> v.self, raised |-> v.raised,
                   calls |-> opened.calls \o v.calls, sheets |-> opened.sheets]
             ELSE LET z == _initialize(v.self)
                  IN [self |-> z.self, raised |-> None,
                      calls |-> opened.calls \o v.calls \o z.calls, sheets |-> opened.sheets]

\* __init__ creating a spreadsheet when the lookup finds none.
__init___create_when_missing(args, kwargs, item, sh, cp) ==
  LET looked ==
        IF Len(args) > 0 THEN _open_sheet(Sheet, "title", args[1], sh) @@ [sheets |-> sh]
        ELSE IF kwargs # {} THEN _open_sheet(Sheet, item[1], item[2], sh) @@ [sheets |-> sh]
        ELSE [self |-> Sheet, raised |-> NotFoundError, calls |-> <<>>, sheets |-> sh]
      opened ==
        IF looked.raised = NotFoundError
        THEN LET title == uuid4(sh)
                 sh1 == gc_create(sh, title, cp)
             IN [self |-> [Sheet EXCEPT !.s = Len(sh1)], raised |-> None,
                 calls |-> looked.calls \o <<<<"create", title>>>>, sheets |-> sh1]
        ELSE looked
  IN IF opened.raised # None THEN opened
     ELSE LET v == _verify(opened.self, list_permissions(opened.sheets, opened.self.s))
          IN IF v.raised # None
             THEN [self |-> v.self, raised |-> v.raised,
                   calls |-> opened.calls \o v.calls, sheets |-> opened.sheets]
             ELSE LET z == _initialize(v.self)
                  IN [self |-> z.self, raised |-> None,
                      calls |-> opened.calls \o v.calls \o z.calls, sheets |-> opened.sheets]

\* Sheet.__init__; item is what kwargs.popitem() returns, cp the permission
\* list of a spreadsheet created here.
__init__(args, kwargs, item, sh, cp) ==
  LET opened ==
        IF Len(args) > 0 THEN _open_sheet(Sheet, "title", args[1], sh) @@ [sheets |-> sh]
        ELSE IF kwargs # {} THEN _open_sheet(Sheet, item[1], item[2], sh) @@ [sheets |-> sh]
        ELSE LET title == uuid4(sh)
                 sh1 == gc_create(sh, title, cp)
             IN [self |-> [Sheet EXCEPT !.s = Len(sh1)], raised |-> None,
                 calls |-> <<<<"create", title>>>>, sheets |-> sh1]
  IN IF opened.raised # None THEN opened
     ELSE LET v == _verify(opened.self, list_permissions(opened.sheets, opened.self.s))
          IN IF v.raised # None
             THEN [self |-> v.self, raised |-> v.raised,
                   calls |-> opened.calls \o v.calls, sheets |-> opened.sheets]
             ELSE LET z == _initialize(v.self)
                  IN [self |-> z.self, raised |-> None,
                      calls |-> opened.calls \o v.calls \o z.calls, sheets |-> opened.sheets]

\* share with an except clause that does not catch RequestError.
share_uncaught(self, email, role, notify, sh, accept) ==
  LET r == s_share(sh, self.s, email, role, notify, accept)
      calls == <<<<"share", self.s, email, role, notify>>>>
  IN IF r.raised = RequestError
     THEN [self |-> self, ret |-> FALSE, raised |-> RequestError, sheets |-> r.sheets,
           calls |-> calls]
     ELSE [self |-> self, ret |-> TRUE, raised |-> None, sheets |-> r.sheets, calls |-> calls]

\* Sheet.share
share(self, email, role, notify, sh, accept) ==
  LET r == s_share(sh, self.s, email, role, notify, accept)
      calls == <<<<"share", self.s, email, role, notify>>>>
  IN IF r.raised = RequestError
     THEN [self |-> self, ret |-> FALSE, raised |-> None, sheets |-> r.sheets, calls |-> calls]
     ELSE [self |-> self, ret |-> TRUE, raised |-> None, sheets |-> r.sheets, calls |-> calls]

\* change_owner gated on the recorded role instead of the recorded owner.
change_owner_role_gate(self, new_owner_email, sh, accept) ==
  IF self.role \in {"owner", "writer"}
  THEN LET r == s_share(sh, self.s, new_owner_email, "owner", FALSE, accept)
           calls == <<<<"share", self.s, new_owner_email, "owner", FALSE>>>>
       IN IF r.raised = RequestError
          THEN [self |-> self, ret |-> FALSE, raised |-> None, sheets |-> r.sheets,
                calls |-> calls]
          ELSE [self |-> self, ret |-> TRUE, raised |-> None, sheets |-> r.sheets,
                calls |-> calls]
  ELSE [self |-> self, ret |-> FALSE, raised |-> None, sheets |-> sh, calls |-> <<>>]

\* change_owner granting the role writer.
change_owner_writer(self, new_owner_email, sh, accept) ==
  IF self.owner = self.whoami
  THEN LET r == s_share(sh, self.s, new_owner_email, "writer", FALSE, accept)
           calls == <<<<"share", self.s, new_owner_email, "writer", FALSE>>>>
       IN IF r.raised = RequestError
          THEN [self |-> self, ret |-> FALSE, raised |-> None, sheets |-> r.sheets,
                calls |-> calls]
          ELSE [self |-> self, ret |-> TRUE, raised |-> None, sheets |-> r.sheets,
                calls |-> calls]
  ELSE [self |-> self, ret |-> FALSE, raised |-> None, sheets |-> sh, calls |-> <<>>]

\* change_owner recording the new owner in self.owner on success.
change_owner_records_owner(self, new_owner_email, sh, accept) ==
  IF self.owner = self.whoami
  THEN LET r == s_share(sh, self.s, new_owner_email, "owner", FALSE, accept)
           calls == <<<<"share", self.s, new_owner_email, "owner", FALSE>>>>
       IN IF r.raised = RequestError
          THEN [self |-> self, ret |-> FALSE, raised |-> None, sheets |-> r.sheets,
                calls |-> calls]
          ELSE [self |-> [self EXCEPT !.owner = new_owner_email], ret |-> TRUE,
                raised |-> None, sheets |-> r.sheets, calls |-> calls]
  ELSE [self |-> self, ret |-> FALSE, raised |-> None, sheets |-> sh, calls |-> <<>>]

\* Sheet.change_owner
change_owner(self, new_owner_email, sh, accept) ==
  IF self.owner = self.whoami
  THEN LET r == s_share(sh, self.s, new_owner_email, "owner", FALSE, accept)
           calls == <<<<"share", self.s, new_owner_email, "owner", FALSE>>>>
       IN IF r.raised = RequestError
          THEN [self |-> self, ret |-> FALSE, raised |-> None, sheets |-> r.sheets,
                calls |-> calls]
          ELSE [self |-> self, ret |-> TRUE, raised |-> None, sheets |-> r.sheets,
                calls |-> calls]
  ELSE [self |-> self, ret |-> FALSE, raised |-> None, sheets |-> sh, calls |-> <<>>]

\* ------------------------------------------------------------ the machine
\* The arguments of a construction.  kwargs is the set of keywords passed
\* and item the (keyword, value) pair kwargs.popitem() returns: any of the
\* pairs passed; the values of the other keywords are never read.  cp is
\* the permission list the service reports for a spreadsheet created here.
NoItem == <<None, 0>>

KwargsSets == { kw \in SUBSET Keywords : Cardinality(kw) <= MaxKwargs }

ConstructInputs ==
  { [args |-> <<>>, kwargs |-> {}, item |-> NoItem, cp |-> cp] : cp \in CreatedPerms }
  \cup
  { [args |-> <<v>>, kwargs |-> kw, item |-> NoItem, cp |-> OwnedPerms] :
      v \in Values, kw \in KwargsSets }
  \cup
  UNION { { [args |-> <<>>, kwargs |-> kw, item |-> <<k, v>>, cp |-> OwnedPerms] :
              k \in kw, v \in Values } : kw \in KwargsSets \ {{}} }

\* Whether some keyword passed is not a lookup method.
HasBadKeyword(kwargs) == kwargs \ LookupKeys # {}

NoCall ==
  [op |-> "none", args |-> <<>>, badkw |-> FALSE, key |-> None, value |-> 0,
   email |-> None, role |-> None, notify |-> FALSE, accept |-> FALSE,
   self |-> Sheet, after |-> Sheet, raised |-> None, ret |-> FALSE, calls |-> <<>>,
   nsheets |-> 0, changed |-> FALSE]

\* The spreadsheets that exist before the program runs; p1 is the
\* permission list of the first.
Existing(p1) ==
  << [key |-> 1, title |-> 2, perms |-> p1],
     [key |-> 2, title |-> 1, perms |-> OwnedPerms] >>

Init ==
  /\ \E p1 \in InitPerms : sheets = Existing(p1)
  /\ sessions = {}
  /\ last = NoCall
  /\ ncalls = 0
  /\ nzero = 0

\* x = Sheet(*args, **kwargs); x joins the live objects if no error is raised.
Construct ==
  /\ ncalls < MaxCalls
  /\ \E inp \in ConstructInputs :
       LET r == __init__(inp.args, inp.kwargs, inp.item, sheets, inp.cp)
           positional == Len(inp.args) > 0
       IN /\ sheets' = r.sheets
          /\ sessions' = IF r.raised = None THEN sessions \cup {r.self} ELSE sessions
          /\ nzero' = IF ~positional /\ inp.kwargs = {} THEN nzero + 1 ELSE nzero
          /\ last' = [NoCall EXCEPT !.op = "__init__", !.args = inp.args,
                        !.badkw = HasBadKeyword(inp.kwargs),
                        !.key = IF positional THEN "title" ELSE inp.item[1],
                        !.value = IF positional THEN inp.args[1] ELSE inp.item[2],
                        !.self = Sheet, !.after = r.self, !.raised = r.raised,
                        !.calls = r.calls, !.nsheets = Len(sheets),
                        !.changed = (r.sheets # sheets)]
  /\ ncalls' = ncalls + 1

\* x.share(email, role, notify) on a live object x
Share ==
  /\ ncalls < MaxCalls
  /\ \E x \in sessions, email \in Principals, role \in Roles,
        notify \in BOOLEAN, accept \in BOOLEAN :
       LET r == share(x, email, role, notify, sheets, accept)
           accepted == s_share(sheets, x.s, email, role, notify, accept).raised = None
       IN /\ sheets' = r.sheets
          /\ sessions' = (sessions \ {x}) \cup {r.self}
          /\ last' = [NoCall EXCEPT !.op = "share", !.email = email, !.role = role,
                        !.notify = notify, !.accept = accepted, !.self = x,
                        !.after = r.self, !.raised = r.raised, !.ret = r.ret,
                        !.calls = r.calls, !.nsheets = Len(sheets),
                        !.changed = (r.sheets # sheets)]
  /\ ncalls' = ncalls + 1
  /\ UNCHANGED nzero

\* x.change_owner(new_owner_email) on a live object x
ChangeOwner ==
  /\ ncalls < MaxCalls
  /\ \E x \in sessions, email \in Principals, accept \in BOOLEAN :
       LET r == change_owner(x, email, sheets, accept)
           accepted == s_share(sheets, x.s, email, "owner", FALSE, accept).raised = None
       IN /\ sheets' = r.sheets
          /\ sessions' = (sessions \ {x}) \cup {r.self}
          /\ last' = [NoCall EXCEPT !.op = "change_owner", !.email = email,
                        !.role = "owner", !.accept = accepted, !.self = x,
                        !.after = r.self, !.raised = r.raised, !.ret = r.ret,
                        !.calls = r.calls, !.nsheets = Len(sheets),
                        !.changed = (r.sheets # sheets)]
  /\ ncalls' = ncalls + 1
  /\ UNCHANGED nzero

Next == Construct \/ Share \/ ChangeOwner

Spec == Init /\ [][Next]_vars

\* ------------------------------------------------------------- properties
IsInit == last.op = "__init__"
ZeroArgs == IsInit /\ last.args = <<>> /\ last.key = None
ValidRoles == {"owner", "writer"}
OpenFns == {"open", "open_by_key", "open_by_url"}
CallsTo(fns) == { i \in DOMAIN last.calls : last.calls[i][1] \in fns }

\* The spreadsheets a lookup value denotes under a lookup method.
Resolved(key, value) ==
  { i \in DOMAIN sheets :
      \/ key = "title" /\ sheets[i].title = value
      \/ key = "key" /\ sheets[i].key = value
      \/ key = "url" /\ sheets[i].key = KeyFromUrl(value) }

\* The backend open operation of a lookup method.
OpenFnOf(key) ==
  CASE key = "title" -> "open" [] key = "key" -> "open_by_key" [] key = "url" -> "open_by_url"

\* C1: every constructed Sheet has the role owner or writer, and a
\* construction that reached a spreadsheet on which the service account has
\* another role or no entry raised the insufficient-privileges SheetError,
\* whether or not an owner was recorded.
C1_RoleOwnerOrWriter ==
  /\ \A x \in sessions : x.role \in ValidRoles
  /\ (IsInit /\ last.raised = None) => last.after \in sessions
  /\ (IsInit /\ last.after.s # 0 /\ sheets[last.after.s].perms[whoami] \notin ValidRoles)
       => (last.raised = PermissionError /\ last.after \notin sessions)

C1_Witness ==
  /\ IsInit
  /\ last.raised = PermissionError
  /\ last.after.owner # None
  /\ sheets[last.after.s].perms[whoami] = "reader"

\* C2: a lookup by title, key or url (a positional argument being a title
\* lookup) of a value that denotes an existing spreadsheet on which the
\* service account is owner or writer returns a Sheet whose handle is that
\* spreadsheet, after one call of the open operation of that method and of
\* no other open or create operation.
C2_OpensThatSpreadsheet ==
  ( /\ IsInit
    /\ last.key \in LookupKeys
    /\ Resolved(last.key, last.value) # {}
    /\ \A i \in Resolved(last.key, last.value) : sheets[i].perms[whoami] \in ValidRoles )
  => /\ last.raised = None
     /\ last.after \in sessions
     /\ last.after.s \in Resolved(last.key, last.value)
     /\ CallsTo(OpenFns \cup {"create"}) = {1}
     /\ last.calls[1] = <<OpenFnOf(last.key), last.value>>

C2_Witness ==
  /\ IsInit
  /\ last.key = "url"
  /\ last.raised = None
  /\ sheets[last.after.s].key = KeyFromUrl(last.value)
  /\ sheets[last.after.s].key # last.value

\* C3 as stated: a construction passed a keyword other than title, key, url
\* raises the lookup-key SheetError and opens or creates nothing.
C3_AnyBadKeywordFails ==
  (IsInit /\ last.badkw)
  => (last.raised = ConfigurationError /\ last.calls = <<>> /\ ~last.changed)

\* C3 amended: a construction with no positional argument in which the
\* keyword pair taken from kwargs is not one of title, key, url raises the
\* lookup-key SheetError, whatever the value, and opens or creates nothing.
C3_PoppedBadKeywordFails ==
  (IsInit /\ last.args = <<>> /\ last.key \notin LookupKeys \cup {None})
  => /\ last.raised = ConfigurationError
     /\ last.calls = <<>>
     /\ ~last.changed
     /\ Len(sheets) = last.nsheets
     /\ last.after \notin sessions

C3_Witness ==
  /\ IsInit
  /\ last.args = <<>>
  /\ last.key = "name"
  /\ last.raised = ConfigurationError

C5_NotOwnerShortCircuits ==
  (last.op = "change_owner" /\ last.self.owner # last.self.whoami)
  => (last.ret = FALSE /\ last.raised = None /\ last.calls = <<>> /\ ~last.changed)

C5_Witness ==
  /\ last.op = "change_owner"
  /\ last.self.owner = None
  /\ last.ret = FALSE

\* C6: change_owner on a Sheet whose recorded owner is the service account
\* sends exactly one share request (new owner, role owner, notify off); it
\* returns True with the new owner recorded by the backend if the request
\* is accepted and False without raising if it is rejected.
C6_OwnerTransfers ==
  (last.op = "change_owner" /\ last.self.owner = last.self.whoami)
  => /\ last.calls = <<<<"share", last.self.s, last.email, "owner", FALSE>>>>
     /\ last.raised = None
     /\ last.accept => (last.ret = TRUE /\ sheets[last.self.s].perms[last.email] = "owner")
     /\ ~last.accept => (last.ret = FALSE /\ ~last.changed)

C6_Witness ==
  /\ last.op = "change_owner"
  /\ last.email # whoami
  /\ last.accept
  /\ last.ret = TRUE
  /\ sheets[last.self.s].perms[last.email] = "owner"

\* C7: share sends exactly one share request with the email, role and notify
\* it was given and never raises on a rejection: it returns False if the
\* backend rejects the request and True if it accepts it, whatever the
\* recorded owner and role.
C7_ShareReturnsFlag ==
  (last.op = "share")
  => /\ last.calls = <<<<"share", last.self.s, last.email, last.role, last.notify>>>>
     /\ last.raised = None
     /\ last.ret = last.accept
     /\ last.accept => sheets[last.self.s].perms[last.email] = last.role
     /\ ~last.accept => ~last.changed

C7_Witness ==
  /\ last.op = "share"
  /\ ~last.accept
  /\ last.ret = FALSE
  /\ last.raised = None
  /\ last.self.owner # last.self.whoami

\* C8: in every construction that opened or created a spreadsheet, the
\* permissions are listed right after the open or create call and before
\* the constructor returns, and every share request is sent through a Sheet
\* whose verification succeeded.
C8_VerifyBeforeUse ==
  /\ (IsInit /\ last.raised \in {None, PermissionError})
       => /\ Len(last.calls) >= 2
          /\ last.calls[1][1] \in OpenFns \cup {"create"}
          /\ last.calls[2] = <<"list_permissions", last.after.s>>
  /\ (IsInit /\ last.raised = None)
       => sheets[last.after.s].perms[whoami] \in ValidRoles
  /\ (last.op \in {"share", "change_owner"} /\ last.calls # <<>>)
       => (last.self \in sessions /\ last.self.role \in ValidRoles)

C8_Witness ==
  /\ last.op = "share"
  /\ last.calls # <<>>
  /\ last.self.role = "writer"
  /\ nzero > 0

\* C9: share and change_owner leave the handle, identity, recorded owner
\* and recorded role of the Sheet as they were, so change_owner on a Sheet
\* that recorded the service account as owner still calls the backend after
\* the ownership has gone to another principal.
C9_FieldsFrozen ==
  (last.op \in {"share", "change_owner"})
  => /\ last.after = last.self
     /\ last.after \in sessions
     /\ (last.op = "change_owner" /\ last.self.owner = whoami) => last.calls # <<>>

C9_Witness ==
  /\ last.op = "change_owner"
  /\ last.self.owner = whoami
  /\ ~last.changed
  /\ sheets[last.self.s].perms[whoami] # "owner"
  /\ last.calls # <<>>

\* C10: each construction without arguments creates one spreadsheet, before
\* the permissions are listed, and the spreadsheet stays even if the
\* verification fails, so n such constructions leave n new spreadsheets with
\* distinct keys; a construction with a lookup creates none.
C10_OneCreatePerZeroArgs ==
  /\ Len(sheets) = Len(Existing(OwnedPerms)) + nzero
  /\ \A i, j \in DOMAIN sheets : i # j => sheets[i].key # sheets[j].key
  /\ ZeroArgs => /\ Len(sheets) = last.nsheets + 1
                 /\ CallsTo({"create"}) = {1}
                 /\ CallsTo(OpenFns) = {}
                 /\ last.after.s = Len(sheets)
  /\ (last.op # "none" /\ ~ZeroArgs)
       => (Len(sheets) = last.nsheets /\ CallsTo({"create"}) = {})

C10_Witness ==
  /\ ZeroArgs
  /\ nzero = 2
  /\ last.raised = PermissionError
  /\ Len(sheets) = last.nsheets + 1
====
